---- MODULE Spec2Model ----
(***************************************************************************)
(* A model of the cache policy engine of requests-cache:                   *)
(*   requests_cache/cache_control.py  (CacheActions and its helpers)       *)
(*   requests_cache/models/response.py (CachedResponse)                    *)
(*                                                                         *)
(* Python values are tagged records: None, IntV(n), StrV(s), TrueV,        *)
(* FalseV, FloatV(tenths), DateF(seconds, tenths).  Python strings are     *)
(* sequences of one-character strings, so splitting, stripping, integer    *)
(* parsing and glob matching are computed and not assumed.  There is one   *)
(* clock, `now`, which reads whole seconds and does not go backwards.      *)
(***************************************************************************)
EXTENDS Integers, Sequences, FiniteSets, TLC

VARIABLES
    now,        \* datetime.utcnow(), in seconds
    request,    \* the PreparedRequest of the cycle: [url, headers]
    actions,    \* the CacheActions instance of the cycle
    call,       \* the most recent call: its name, its arguments, self before it
    pc,         \* position in the request/response cycle
    cache,      \* the session's stored CachedResponse for the cache key, or None
    history,    \* how the session answered its last requests, oldest first
    twin,       \* the CacheActions instance of a second cycle, when there is one
    cycles,     \* cycles that run at once: of each, its position and its instance
    heap        \* the dict objects that the instances of these cycles refer to

vars == <<now, request, actions, call, pc, cache, history, twin, cycles, heap>>

----------------------------------------------------------------------------
(* Python values *)

None == [t |-> "None"]
IntV(n) == [t |-> "int", v |-> n]
StrV(s) == [t |-> "str", v |-> s]
TrueV == [t |-> "bool", v |-> TRUE]
FalseV == [t |-> "bool", v |-> FALSE]
\* a float, in tenths: FloatV(5) is 0.5
FloatV(tenths) == [t |-> "float", v |-> tenths]
\* a naive UTC datetime: v seconds and f tenths of a second
DateF(n, tenths) == [t |-> "datetime", v |-> n, f |-> tenths]
DateV(n) == DateF(n, 0)

\* cache_control.py:33-34
DO_NOT_CACHE == 0
NEVER_EXPIRE == -1

\* x == n of Python, n an int: an int, a bool (False is 0, True is 1) or a
\* float of that value; None, a str and a datetime are equal to no int
EqualsInt(x, n) ==
    \/ x.t = "int" /\ x.v = n
    \/ x.t = "bool" /\ (IF x.v THEN 1 ELSE 0) = n
    \/ x.t = "float" /\ x.v = 10 * n

----------------------------------------------------------------------------
(* Strings *)

Digits == {"0", "1", "2", "3", "4", "5", "6", "7", "8", "9"}

DigitVal(c) ==
    CASE c = "0" -> 0 [] c = "1" -> 1 [] c = "2" -> 2 [] c = "3" -> 3
      [] c = "4" -> 4 [] c = "5" -> 5 [] c = "6" -> 6 [] c = "7" -> 7
      [] c = "8" -> 8 [] c = "9" -> 9

\* str.strip(): leading and trailing blanks removed
RECURSIVE LStrip(_)
LStrip(s) == IF s # <<>> /\ Head(s) = " " THEN LStrip(Tail(s)) ELSE s

RECURSIVE RStrip(_)
RStrip(s) ==
    IF s # <<>> /\ s[Len(s)] = " " THEN RStrip(SubSeq(s, 1, Len(s) - 1)) ELSE s

Strip(s) == RStrip(LStrip(s))

\* str.rstrip(c)
RECURSIVE RStripChar(_, _)
RStripChar(s, c) ==
    IF s # <<>> /\ s[Len(s)] = c THEN RStripChar(SubSeq(s, 1, Len(s) - 1), c) ELSE s

\* the index of the first c in s, 0 when there is none
RECURSIVE IndexFrom(_, _, _)
IndexFrom(s, c, i) ==
    IF i > Len(s) THEN 0 ELSE IF s[i] = c THEN i ELSE IndexFrom(s, c, i + 1)

IndexOf(s, c) == IndexFrom(s, c, 1)

\* str.split(c): the pieces between the occurrences of the character c
RECURSIVE Split(_, _)
Split(s, c) ==
    LET i == IndexOf(s, c)
    IN  IF i = 0 THEN <<s>>
        ELSE <<SubSeq(s, 1, i - 1)>> \o Split(SubSeq(s, i + 1, Len(s)), c)

\* whether sub occurs in s at index i
StartsAt(s, sub, i) ==
    /\ i + Len(sub) - 1 <= Len(s)
    /\ \A j \in 1..Len(sub) : s[i + j - 1] = sub[j]

\* s.split(sep)[-1]: what follows the last occurrence of sep, s when there is none
AfterLast(s, sep) ==
    LET hits == {i \in 1..Len(s) : StartsAt(s, sep, i)}
    IN  IF hits = {} THEN s
        ELSE LET i == CHOOSE h \in hits : \A g \in hits : g <= h
             IN  SubSeq(s, i + Len(sep), Len(s))

RECURSIVE DigitsValue(_, _)
DigitsValue(s, acc) ==
    IF s = <<>> THEN acc ELSE DigitsValue(Tail(s), 10 * acc + DigitVal(Head(s)))

IsDigits(s) == s # <<>> /\ \A i \in 1..Len(s) : s[i] \in Digits

\* int(s) of a str: blanks stripped, an optional sign, decimal digits;
\* None stands for the ValueError
ParseInt(s) ==
    LET b == Strip(s)
        signed == b # <<>> /\ Head(b) \in {"+", "-"}
        d == IF signed THEN Tail(b) ELSE b
    IN  IF ~IsDigits(d) THEN None
        ELSE IF signed /\ Head(b) = "-" THEN IntV(0 - DigitsValue(d, 0))
        ELSE IntV(DigitsValue(d, 0))

\* int(x) of a float of so many tenths: the fraction is dropped, towards zero
Truncate(tenths) == IF tenths >= 0 THEN tenths \div 10 ELSE 0 - ((0 - tenths) \div 10)

\* cache_control.py:300-305
try_int(value) ==
    CASE value.t = "int" -> value
      [] value.t = "bool" -> IntV(IF value.v THEN 1 ELSE 0)
      [] value.t = "float" -> IntV(Truncate(value.v))
      [] value.t = "str" -> ParseInt(value.v)
      [] OTHER -> None

----------------------------------------------------------------------------
(* Mappings: a dict is a function from its keys *)

EmptyDict == [k \in {} |-> None]

Get(d, k) == IF k \in DOMAIN d THEN d[k] ELSE None

Put(d, k, v) == [x \in DOMAIN d \cup {k} |-> IF x = k THEN v ELSE d[x]]

Pop(d, k) == [x \in DOMAIN d \ {k} |-> d[x]]

\* dict(pairs): a later pair overwrites an earlier one with the same key
RECURSIVE DictOf(_)
DictOf(pairs) ==
    IF pairs = <<>> THEN EmptyDict
    ELSE LET n == Len(pairs)
         IN  Put(DictOf(SubSeq(pairs, 1, n - 1)), pairs[n][1], pairs[n][2])

\* bool(s) of a header value or of a str: the empty string is falsy
NonEmpty(s) == s # <<>>

\* headers.get(name) is truthy
HasHeader(headers, name) == name \in DOMAIN headers /\ NonEmpty(headers[name])

----------------------------------------------------------------------------
(* The directive names the policy reads *)

MAX_AGE == <<"m", "a", "x", "-", "a", "g", "e">>
NO_STORE == <<"n", "o", "-", "s", "t", "o", "r", "e">>
NO_CACHE == <<"n", "o", "-", "c", "a", "c", "h", "e">>
ONLY_IF_CACHED == <<"o", "n", "l", "y", "-", "i", "f", "-", "c", "a", "c", "h", "e", "d">>
MUST_REVALIDATE ==
    <<"m", "u", "s", "t", "-", "r", "e", "v", "a", "l", "i", "d", "a", "t", "e">>
IMMUTABLE == <<"i", "m", "m", "u", "t", "a", "b", "l", "e">>
EXPIRES == <<"e", "x", "p", "i", "r", "e", "s">>

\* a variant: a value that is no integer is kept as the str it is
split_kv_directive_keeps_str(header_value) ==
    LET stripped == Strip(header_value)
        i == IndexOf(stripped, "=")
        v == StrV(SubSeq(stripped, i + 1, Len(stripped)))
    IN  IF i # 0
        THEN <<SubSeq(stripped, 1, i - 1), IF try_int(v) = None THEN v ELSE try_int(v)>>
        ELSE <<stripped, TrueV>>

\* cache_control.py:278-287
split_kv_directive(header_value) ==
    LET stripped == Strip(header_value)
        i == IndexOf(stripped, "=")
    IN  IF i # 0
        THEN <<SubSeq(stripped, 1, i - 1),
               try_int(StrV(SubSeq(stripped, i + 1, Len(stripped))))>>
        ELSE <<stripped, TrueV>>

\* a variant: the Expires header is not looked at
get_cache_directives_without_expires(headers) ==
    IF headers = None \/ DOMAIN headers = {} THEN EmptyDict
    ELSE LET cache_directives ==
                 IF HasHeader(headers, "Cache-Control")
                 THEN Split(headers["Cache-Control"], ",")
                 ELSE <<>>
         IN  DictOf([i \in 1..Len(cache_directives) |->
                        split_kv_directive(cache_directives[i])])

\* cache_control.py:226-240
get_cache_directives(headers) ==
    IF headers = None \/ DOMAIN headers = {} THEN EmptyDict
    ELSE LET cache_directives ==
                 IF HasHeader(headers, "Cache-Control")
                 THEN Split(headers["Cache-Control"], ",")
                 ELSE <<>>
             kv_directives ==
                 DictOf([i \in 1..Len(cache_directives) |->
                            split_kv_directive(cache_directives[i])])
         IN  IF "Expires" \in DOMAIN headers
             THEN Put(kv_directives, EXPIRES, StrV(headers["Expires"]))
             ELSE kv_directives

\* cache_control.py:328-329
has_validator(headers) ==
    HasHeader(headers, "ETag") \/ HasHeader(headers, "Last-Modified")

----------------------------------------------------------------------------
(* URL patterns *)

\* fnmatch.fnmatch(s, p) for patterns of literal characters, '*' and '?'
RECURSIVE fnmatch(_, _)
fnmatch(s, p) ==
    IF p = <<>> THEN s = <<>>
    ELSE IF Head(p) = "*"
         THEN fnmatch(s, Tail(p)) \/ (s # <<>> /\ fnmatch(Tail(s), p))
    ELSE IF Head(p) = "?"
         THEN s # <<>> /\ fnmatch(Tail(s), Tail(p))
    ELSE s # <<>> /\ Head(s) = Head(p) /\ fnmatch(Tail(s), Tail(p))

SCHEME_SEP == <<":", "/", "/">>

\* cache_control.py:308-325
url_match(url, pattern) ==
    fnmatch(AfterLast(url, SCHEME_SEP),
            RStripChar(AfterLast(pattern, SCHEME_SEP), "*") \o <<"*", "*">>)

\* cache_control.py:254-265; urls_expire_after is the pattern map in insertion
\* order, a sequence of <<pattern, expire_after>>
RECURSIVE get_url_expiration(_, _)
get_url_expiration(url, urls_expire_after) ==
    IF url = <<>> \/ urls_expire_after = <<>> THEN None
    ELSE IF url_match(url, Head(urls_expire_after)[1])
         THEN Head(urls_expire_after)[2]
    ELSE get_url_expiration(url, Tail(urls_expire_after))

\* _utils.coalesce: the first value that is not None
RECURSIVE coalesce(_)
coalesce(values) ==
    IF values = <<>> THEN None
    ELSE IF Head(values) # None THEN Head(values)
    ELSE coalesce(Tail(values))

----------------------------------------------------------------------------
(* CacheActions.from_request, cache_control.py:76-131 *)

\* a variant: the per-request expiration is looked at before the request's max-age
from_request_expire_after_request_first(directives, request_expire_after, url_expire_after, session_expire_after) ==
    coalesce(<<request_expire_after, Get(directives, MAX_AGE), url_expire_after,
               session_expire_after>>)

\* cache_control.py:105-110
from_request_expire_after(directives, request_expire_after, url_expire_after, session_expire_after) ==
    coalesce(<<Get(directives, MAX_AGE), request_expire_after, url_expire_after,
               session_expire_after>>)

\* a variant: the resolved expire_after is checked also when cache_control is set
from_request_skip_write_resolved(cache_control, directives, expire_after) ==
    EqualsInt(expire_after, DO_NOT_CACHE) \/ NO_STORE \in DOMAIN directives

\* cache_control.py:114-115
from_request_skip_write(cache_control, directives, expire_after) ==
    LET check_expiration ==
            IF cache_control THEN Get(directives, MAX_AGE) ELSE expire_after
    IN  EqualsInt(check_expiration, DO_NOT_CACHE) \/ NO_STORE \in DOMAIN directives

\* cache_control.py:113: bool() of what headers.pop('requests-cache-refresh', False) returns
refresh_temp_header(headers) == HasHeader(headers, "requests-cache-refresh")

\* cache_control.py:120
from_request_skip_read(skip_write, refresh, refresh_header) ==
    skip_write \/ refresh \/ refresh_header

\* cache_control.py:118
from_request_only_if_cached(only_if_cached, directives) ==
    only_if_cached \/ ONLY_IF_CACHED \in DOMAIN directives

\* a variant: the request's no-cache is not looked at
from_request_revalidate_argument_only(revalidate, directives) == revalidate

\* cache_control.py:119
from_request_revalidate(revalidate, directives) ==
    revalidate \/ NO_CACHE \in DOMAIN directives

\* cache_control.py:100-131: the CacheActions the call returns
from_request(cache_key, req, cache_control, session_expire_after, urls_expire_after, request_expire_after, only_if_cached, refresh, revalidate) ==
    LET directives == get_cache_directives(req.headers)
        expire_after ==
            from_request_expire_after(directives, request_expire_after,
                get_url_expiration(req.url, urls_expire_after), session_expire_after)
        skip_write == from_request_skip_write(cache_control, directives, expire_after)
    IN  [cache_control |-> cache_control,
         cache_key |-> cache_key,
         expire_after |-> expire_after,
         only_if_cached |-> from_request_only_if_cached(only_if_cached, directives),
         request_directives |-> directives,
         revalidate |-> from_request_revalidate(revalidate, directives),
         skip_read |-> from_request_skip_read(skip_write, refresh,
                                              refresh_temp_header(req.headers)),
         skip_write |-> skip_write,
         validation_headers |-> EmptyDict]

\* a variant: the refresh header is read with get() and stays on the request
request_after_from_request_kept(req) == req

\* cache_control.py:100,113: what the call leaves of the request it was given
request_after_from_request(req) ==
    [req EXCEPT !.headers = Pop(@, "requests-cache-refresh")]

----------------------------------------------------------------------------
(* Expiration conversion *)

\* the TypeError or ValueError that parsedate_to_datetime raises
ValueError == [t |-> "ValueError"]

\* email.utils.parsedate_to_datetime, on a date syntax of the model: '@' and the
\* decimal seconds; anything else raises
parsedate_to_datetime(value) ==
    IF value # <<>> /\ Head(value) = "@" /\ IsDigits(Tail(value))
    THEN DateV(DigitsValue(Tail(value), 0))
    ELSE ValueError

\* a variant: the error of parsedate_to_datetime is not caught
parse_http_date_uncaught(value) == parsedate_to_datetime(value)

\* cache_control.py:268-275
parse_http_date(value) ==
    LET expire_after == parsedate_to_datetime(value)
    IN  IF expire_after = ValueError THEN None ELSE expire_after

\* cache_control.py:215-217: datetime.utcnow() + timedelta(seconds=expire_after),
\* of an int, a bool or a float
utcnow_plus(utcnow, seconds) ==
    CASE seconds.t = "int" -> DateV(utcnow + seconds.v)
      [] seconds.t = "bool" -> DateV(utcnow + (IF seconds.v THEN 1 ELSE 0))
      [] seconds.t = "float" -> DateF(utcnow + (seconds.v \div 10), seconds.v % 10)

\* a variant: NEVER_EXPIRE is taken for a number of seconds
get_expiration_datetime_without_never_expire(expire_after, utcnow) ==
    IF expire_after = None THEN None
    ELSE IF try_int(expire_after) = IntV(DO_NOT_CACHE) THEN DateV(utcnow)
    ELSE IF expire_after.t = "str" THEN parse_http_date(expire_after.v)
    ELSE IF expire_after.t = "datetime" THEN expire_after
    ELSE utcnow_plus(utcnow, expire_after)

\* cache_control.py:200-217
get_expiration_datetime(expire_after, utcnow) ==
    IF expire_after = None \/ EqualsInt(expire_after, NEVER_EXPIRE) THEN None
    ELSE IF try_int(expire_after) = IntV(DO_NOT_CACHE) THEN DateV(utcnow)
    ELSE IF expire_after.t = "str" THEN parse_http_date(expire_after.v)
    ELSE IF expire_after.t = "datetime" THEN expire_after
    ELSE utcnow_plus(utcnow, expire_after)

\* (expires - datetime.utcnow()).total_seconds(), in tenths of a second
total_seconds(expires, utcnow) == (expires.v - utcnow) * 10 + expires.f

\* math.ceil of a number of seconds given in tenths
ceil(tenths) == -((-tenths) \div 10)

\* a variant: the seconds are truncated with int()
get_expiration_seconds_truncated(expire_after, utcnow, later) ==
    LET expires == get_expiration_datetime(expire_after, utcnow)
    IN  IF expires # None THEN Truncate(total_seconds(expires, later)) ELSE NEVER_EXPIRE

\* cache_control.py:220-223; utcnow is the clock that get_expiration_datetime
\* reads, later the one that the subtraction reads
get_expiration_seconds(expire_after, utcnow, later) ==
    LET expires == get_expiration_datetime(expire_after, utcnow)
    IN  IF expires # None THEN ceil(total_seconds(expires, later)) ELSE NEVER_EXPIRE

----------------------------------------------------------------------------
(* Responses: None, or a record of the attributes the policy and the       *)
(* response model read; t tells a requests.Response from a CachedResponse   *)

\* a response with its body and its redirect history
FullResponse(t, status_code, headers, expires, content, redirects, cache_key) ==
    [t |-> t, status_code |-> status_code, headers |-> headers, expires |-> expires,
     content |-> content, history |-> redirects, cache_key |-> cache_key]

\* a requests.Response without body and history
Response(status_code, headers, expires) ==
    FullResponse("Response", status_code, headers, expires, <<>>, <<>>, None)

\* models/response.py:26-40: a CachedResponse without body and history
CachedResponse(status_code, headers, expires) ==
    FullResponse("CachedResponse", status_code, headers, expires, <<>>, <<>>, None)

\* requests.Response.__bool__ is Response.ok: the status is below 400.
\* `if not response` (cache_control.py:144, 168) is ~Truthy(response)
Truthy(response) == response # None /\ response.status_code < 400

\* utcnow >= dt, of a clock reading in whole seconds and a datetime
NotBefore(utcnow, dt) == utcnow > dt.v \/ (utcnow = dt.v /\ dt.f = 0)

\* cache_control.py:133-136: the property CacheActions.expires
CacheActions_expires(self, utcnow) ==
    get_expiration_datetime(self.expire_after, utcnow)

\* a variant: a response is expired only after the instant of its expiration
is_expired_after(response, utcnow) ==
    response.expires # None /\ utcnow > response.expires.v

\* a variant: a response is expired at the instant of its expiration only
is_expired_at_the_instant(response, utcnow) ==
    response.expires # None /\ utcnow = response.expires.v /\ response.expires.f = 0

\* models/response.py:96-99
is_expired(response, utcnow) ==
    response.expires # None /\ NotBefore(utcnow, response.expires)

\* models/response.py:101-107: the property ttl; utcnow is the clock that
\* is_expired reads, later the one that the subtraction reads
ttl(response, utcnow, later) ==
    IF response.expires = None \/ is_expired(response, utcnow) THEN None
    ELSE IntV(Truncate(total_seconds(response.expires, later)))

\* a variant: the new expiration is computed and not assigned
reset_expiration_unassigned(response, expire_after, utcnow) == response

\* models/response.py:114-117: the response after the call; the call returns
\* is_expired of it
reset_expiration(response, expire_after, utcnow) ==
    [response EXCEPT !.expires = get_expiration_datetime(expire_after, utcnow)]

----------------------------------------------------------------------------
(* CachedResponse.from_response, models/response.py:49-81 *)

\* requests.Response.is_redirect: a Location header and a redirect status
REDIRECT_STATI == {301, 302, 303, 307, 308}

is_redirect(response) ==
    "Location" \in DOMAIN response.headers /\ response.status_code \in REDIRECT_STATI

\* a variant: an expires that is not given leaves the one the response had
from_response_evolve_keeps_expires(original_response, expires) ==
    [original_response EXCEPT
        !.expires = IF expires = None THEN @ ELSE expires,
        !.cache_key = None]

\* models/response.py:57-58: attr.evolve(original_response, expires=expires), a
\* new instance of the same fields; cache_key, which is no field (models/response.py:28),
\* is the class's None again
from_response_evolve(original_response, expires) ==
    [original_response EXCEPT !.expires = expires, !.cache_key = None]

RECURSIVE from_response(_, _)

\* a variant: the history is copied whether the response is a redirect or not
from_response_history_of_redirects(obj_is_redirect, original_history) ==
    [i \in 1..Len(original_history) |-> from_response(original_history[i], None)]

\* models/response.py:75-79
from_response_history(obj_is_redirect, original_history) ==
    IF obj_is_redirect THEN <<>>
    ELSE [i \in 1..Len(original_history) |-> from_response(original_history[i], None)]

\* models/response.py:49-81
from_response(original_response, expires) ==
    IF original_response.t = "CachedResponse"
    THEN from_response_evolve(original_response, expires)
    ELSE FullResponse("CachedResponse", original_response.status_code,
                      original_response.headers, expires, original_response.content,
                      from_response_history(is_redirect(original_response),
                                            original_response.history),
                      None)

----------------------------------------------------------------------------
(* CacheActions.update_from_cached_response, cache_control.py:138-161 *)

\* a variant: must-revalidate alone triggers the revalidation
cached_response_revalidate_any_max_age(self, response, utcnow) ==
    LET directives == get_cache_directives(response.headers)
    IN  /\ has_validator(response.headers)
        /\ \/ is_expired(response, utcnow)
           \/ self.revalidate
           \/ NO_CACHE \in DOMAIN directives
           \/ MUST_REVALIDATE \in DOMAIN directives

\* cache_control.py:148-156
cached_response_revalidate(self, response, utcnow) ==
    LET directives == get_cache_directives(response.headers)
    IN  /\ has_validator(response.headers)
        /\ \/ is_expired(response, utcnow)
           \/ self.revalidate
           \/ NO_CACHE \in DOMAIN directives
           \/ /\ MUST_REVALIDATE \in DOMAIN directives
              /\ EqualsInt(Get(directives, MAX_AGE), 0)

\* a variant: If-Modified-Since is an elif of If-None-Match
cached_response_validation_headers_elif(self, response, revalidate) ==
    IF revalidate /\ HasHeader(response.headers, "ETag")
    THEN Put(self.validation_headers, "If-None-Match", response.headers["ETag"])
    ELSE IF revalidate /\ HasHeader(response.headers, "Last-Modified")
    THEN Put(self.validation_headers, "If-Modified-Since",
             response.headers["Last-Modified"])
    ELSE self.validation_headers

\* a variant: the validators are copied whether revalidate is set or not
cached_response_validation_headers_always(self, response, revalidate) ==
    LET h1 == IF HasHeader(response.headers, "ETag")
              THEN Put(self.validation_headers, "If-None-Match",
                       response.headers["ETag"])
              ELSE self.validation_headers
    IN  IF HasHeader(response.headers, "Last-Modified")
        THEN Put(h1, "If-Modified-Since", response.headers["Last-Modified"])
        ELSE h1

\* cache_control.py:158-161
cached_response_validation_headers(self, response, revalidate) ==
    LET h1 == IF revalidate /\ HasHeader(response.headers, "ETag")
              THEN Put(self.validation_headers, "If-None-Match",
                       response.headers["ETag"])
              ELSE self.validation_headers
    IN  IF revalidate /\ HasHeader(response.headers, "Last-Modified")
        THEN Put(h1, "If-Modified-Since", response.headers["Last-Modified"])
        ELSE h1

\* a variant: a cached response that is to be revalidated is not read
update_from_cached_response_sets_skip_read(self, response, utcnow) ==
    IF ~Truthy(response) THEN self
    ELSE LET revalidate == cached_response_revalidate(self, response, utcnow)
         IN  [self EXCEPT
                 !.revalidate = revalidate,
                 !.skip_read = @ \/ revalidate,
                 !.validation_headers =
                     cached_response_validation_headers(self, response, revalidate)]

\* cache_control.py:138-161: self after the call
update_from_cached_response(self, response, utcnow) ==
    IF ~Truthy(response) THEN self
    ELSE LET revalidate == cached_response_revalidate(self, response, utcnow)
         IN  [self EXCEPT
                 !.revalidate = revalidate,
                 !.validation_headers =
                     cached_response_validation_headers(self, response, revalidate)]

----------------------------------------------------------------------------
(* CacheActions.update_from_response, cache_control.py:163-186 *)

\* directives.get('immutable') is truthy: True, or an integer other than 0
Immutable(directives) ==
    LET v == Get(directives, IMMUTABLE)
    IN  v = TrueV \/ (v.t = "int" /\ v.v # 0)

\* a variant: the expiration held from the request is looked at first
response_expire_after_request_first(self, directives) ==
    IF Immutable(directives) THEN IntV(NEVER_EXPIRE)
    ELSE coalesce(<<self.expire_after, Get(directives, MAX_AGE),
                    Get(directives, EXPIRES)>>)

\* cache_control.py:175-180
response_expire_after(self, directives) ==
    IF Immutable(directives) THEN IntV(NEVER_EXPIRE)
    ELSE coalesce(<<Get(directives, MAX_AGE), Get(directives, EXPIRES),
                    self.expire_after>>)

\* a variant: expire_after is compared with 0 without try_int
response_skip_write_no_try_int(self, response, directives, expire_after) ==
    LET no_store ==
            NO_STORE \in DOMAIN directives \/ NO_STORE \in DOMAIN self.request_directives
        expire_immediately == EqualsInt(expire_after, DO_NOT_CACHE)
    IN  (expire_immediately \/ no_store) /\ ~has_validator(response.headers)

\* cache_control.py:181-186
response_skip_write(self, response, directives, expire_after) ==
    LET no_store ==
            NO_STORE \in DOMAIN directives \/ NO_STORE \in DOMAIN self.request_directives
        expire_immediately == try_int(expire_after) = IntV(DO_NOT_CACHE)
    IN  (expire_immediately \/ no_store) /\ ~has_validator(response.headers)

\* a variant: the headers of the response are read whatever cache_control is
update_from_response_any_cache_control(self, response) ==
    IF ~Truthy(response) THEN self
    ELSE LET directives == get_cache_directives(response.headers)
             expire_after == response_expire_after(self, directives)
         IN  [self EXCEPT
                 !.expire_after = expire_after,
                 !.skip_write =
                     response_skip_write(self, response, directives, expire_after)]

\* cache_control.py:163-186: self after the call
update_from_response(self, response) ==
    IF ~Truthy(response) \/ ~self.cache_control THEN self
    ELSE LET directives == get_cache_directives(response.headers)
             expire_after == response_expire_after(self, directives)
         IN  [self EXCEPT
                 !.expire_after = expire_after,
                 !.skip_write =
                     response_skip_write(self, response, directives, expire_after)]

----------------------------------------------------------------------------
(* The inputs of the model *)

MaxNow == 1

KV(key, value) == key \o <<"=">> \o value

\* an optional header: the empty value stands for "not sent"
WithHeader(headers, name, value) ==
    IF value = <<>> THEN headers ELSE Put(headers, name, value)

URL_D1 == <<"h", "t", "t", "p", ":", "/", "/", "a", ".", "i", "o", "/", "d", "/", "1">>
URL_S == <<"a", ".", "i", "o", "/", "s">>

\* the empty URL stands for a request without one
Urls == {URL_D1, URL_S, <<>>}

\* per-URL expirations: {}, {'a.io/d': 0, 'a.io': 60}, {'*/s': None, 'a.io/*': -1}
UrlPatterns ==
    {<<>>,
     <<<<<<"a", ".", "i", "o", "/", "d">>, IntV(0)>>,
       <<<<"a", ".", "i", "o">>, IntV(60)>>>>,
     <<<<<<"*", "/", "s">>, None>>,
       <<<<"a", ".", "i", "o", "/", "*">>, IntV(-1)>>>>}

RequestCacheControls ==
    {<<>>,
     KV(MAX_AGE, <<"0">>),
     KV(MAX_AGE, <<"3", "6", "0">>),
     KV(MAX_AGE, <<"a", "b", "c">>),
     NO_STORE,
     KV(MAX_AGE, <<"3", "6", "0">>) \o <<",", " ">> \o NO_STORE,
     NO_CACHE,
     ONLY_IF_CACHED}

REFRESH_VALUE == <<"t", "r", "u", "e">>

RequestHeaders ==
    {WithHeader(WithHeader(EmptyDict, "Cache-Control", cc),
                "requests-cache-refresh", r) :
        cc \in RequestCacheControls, r \in {<<>>, REFRESH_VALUE}}

Requests == [url : Urls, headers : RequestHeaders]

SessionExpirations == {None, IntV(0), IntV(60)}
RequestExpirations == {None, IntV(0), IntV(-1)}

\* (only_if_cached, refresh, revalidate)
Flags == {<<FALSE, FALSE, FALSE>>, <<TRUE, FALSE, FALSE>>, <<FALSE, TRUE, FALSE>>,
          <<FALSE, FALSE, TRUE>>, <<TRUE, TRUE, TRUE>>}

\* the requests and settings of the cycles that go on to a response
CycleRequests ==
    [url : {URL_D1},
     headers : {WithHeader(EmptyDict, "Cache-Control", cc) :
                   cc \in {<<>>, KV(MAX_AGE, <<"0">>), KV(MAX_AGE, <<"3", "6", "0">>),
                           NO_STORE, NO_CACHE}}]

CycleFlags == {<<FALSE, FALSE, FALSE>>, <<FALSE, FALSE, TRUE>>, <<TRUE, FALSE, FALSE>>}

HTTPDATE == <<"@", "1">>

ETAG == <<"e", "1">>
LAST_MODIFIED == <<"@", "0">>

Validators ==
    {WithHeader(WithHeader(EmptyDict, "ETag", e), "Last-Modified", m) :
        e \in {<<>>, ETAG}, m \in {<<>>, LAST_MODIFIED}}

CachedCacheControls ==
    {<<>>,
     KV(MAX_AGE, <<"0">>),
     KV(MAX_AGE, <<"6", "0">>) \o <<",">> \o MUST_REVALIDATE,
     KV(MAX_AGE, <<"0">>) \o <<",">> \o MUST_REVALIDATE,
     NO_CACHE}

CachedHeaders ==
    {WithHeader(v, "Cache-Control", cc) : v \in Validators, cc \in CachedCacheControls}

\* what update_from_cached_response is given: nothing, or a CachedResponse
CachedResponses ==
    {None}
    \cup {CachedResponse(200, h, e) : h \in CachedHeaders, e \in {None, DateV(1)}}
    \cup {CachedResponse(404, WithHeader(WithHeader(EmptyDict, "ETag", ETAG),
                                         "Cache-Control", NO_CACHE), DateV(1))}

ResponseCacheControls ==
    {<<>>,
     KV(MAX_AGE, <<"0">>),
     KV(MAX_AGE, <<"6", "0">>),
     KV(MAX_AGE, <<"x">>),
     MAX_AGE,
     NO_CACHE,
     NO_STORE,
     IMMUTABLE \o <<",">> \o KV(MAX_AGE, <<"6", "0">>),
     KV(IMMUTABLE, <<"0">>) \o <<",">> \o KV(MAX_AGE, <<"6", "0">>)}

\* no Expires header, '0', a date, and no date
NODATE == <<"a", "b", "c">>

ResponseExpires == {<<>>, <<"0">>, <<"@", "1">>, NODATE}

ResponseHeaders ==
    {WithHeader(WithHeader(v, "Cache-Control", cc), "Expires", e) :
        v \in {EmptyDict, WithHeader(EmptyDict, "ETag", ETAG),
               WithHeader(EmptyDict, "Last-Modified", LAST_MODIFIED)},
        cc \in ResponseCacheControls, e \in ResponseExpires}

\* what update_from_response is given: nothing, or a Response
Responses ==
    {None}
    \cup {Response(200, h, None) : h \in ResponseHeaders}
    \cup {Response(404, WithHeader(EmptyDict, "Cache-Control", cc), None) :
             cc \in {KV(MAX_AGE, <<"0">>), KV(MAX_AGE, <<"6", "0">>)}}
    \cup {Response(404, WithHeader(EmptyDict, "Expires", NODATE), None)}

----------------------------------------------------------------------------
(* One request/response cycle of one CacheActions instance *)

NoActions == None

\* the cycles that run at once
Cycles == 1..2

Init ==
    /\ now = 0
    /\ request = [url |-> <<>>, headers |-> EmptyDict]
    /\ actions = NoActions
    /\ call = [op |-> "none"]
    /\ pc = "start"
    /\ cache = None
    /\ history = <<>>
    /\ twin = NoActions
    /\ cycles = [i \in Cycles |-> [pc |-> "start", self |-> NoActions, alone |-> NoActions]]
    /\ heap = [address \in {0} \cup Cycles |-> EmptyDict]

\* the clock advances
Tick ==
    /\ now < MaxNow
    /\ now' = now + 1
    /\ UNCHANGED <<cycles, heap, twin, request, actions, call, pc, cache, history>>

\* CacheActions.from_request(cache_key, req, ...); original: the request as it was
\* when from_request was first given it
FromRequestCall(req, original, again, CacheControls, SessionExpireAfters, UrlsExpireAfters, RequestExpireAfters, Flgs) ==
    \E cache_control \in CacheControls, session_expire_after \in SessionExpireAfters,
       urls_expire_after \in UrlsExpireAfters,
       request_expire_after \in RequestExpireAfters, flags \in Flgs :
        /\ actions' = from_request("key", req, cache_control, session_expire_after,
                                   urls_expire_after, request_expire_after,
                                   flags[1], flags[2], flags[3])
        /\ request' = request_after_from_request(req)
        /\ call' = [op |-> "from_request", again |-> again, original |-> original,
                    request |-> req,
                    cache_control |-> cache_control,
                    session_expire_after |-> session_expire_after,
                    urls_expire_after |-> urls_expire_after,
                    request_expire_after |-> request_expire_after,
                    only_if_cached |-> flags[1], refresh |-> flags[2],
                    revalidate |-> flags[3]]
        /\ pc' = "request"
        /\ UNCHANGED <<cycles, heap, twin, now, cache, history>>

\* a cycle starts: CacheActions.from_request on a new request
FromRequest ==
    /\ pc = "start"
    /\ \E req \in CycleRequests :
        FromRequestCall(req, req, FALSE, BOOLEAN, SessionExpirations, {<<>>}, {None},
                        CycleFlags)

UpdateFromCachedResponse ==
    /\ pc = "request"
    /\ \E response \in CachedResponses :
        /\ actions' = update_from_cached_response(actions, response, now)
        /\ call' = [op |-> "update_from_cached_response", self |-> actions,
                    response |-> response, now |-> now]
    /\ pc' = "cached"
    /\ UNCHANGED <<cycles, heap, twin, now, request, cache, history>>

UpdateFromResponse ==
    /\ pc \in {"request", "cached"}
    /\ \E response \in Responses :
        /\ actions' = update_from_response(actions, response)
        /\ call' = [op |-> "update_from_response", self |-> actions,
                    response |-> response]
    /\ pc' = "done"
    /\ UNCHANGED <<cycles, heap, twin, now, request, cache, history>>

Next ==
    \/ Tick
    \/ FromRequest
    \/ UpdateFromCachedResponse
    \/ UpdateFromResponse

Spec == Init /\ [][Next]_vars

----------------------------------------------------------------------------
(* The expiration a cycle ends with: from_request, update_from_response,    *)
(* and CacheActions.expires is read                                         *)

\* CacheActions.expires is read after update_from_response
ReadExpires ==
    /\ pc = "done"
    /\ call.op = "update_from_response"
    /\ call' = [op |-> "expires", self |-> actions, now |-> now,
                response |-> call.response,
                returned |-> CacheActions_expires(actions, now)]
    /\ pc' = "read"
    /\ UNCHANGED <<cycles, heap, now, request, actions, cache, history, twin>>

ExpiresNext ==
    \/ Tick
    \/ FromRequest
    \/ UpdateFromResponse
    \/ ReadExpires

ExpiresSpec == Init /\ [][ExpiresNext]_vars

----------------------------------------------------------------------------
(* from_request alone, over all the requests and settings of the model *)

AnyFromRequest ==
    /\ pc = "start"
    /\ \E req \in Requests :
        FromRequestCall(req, req, FALSE, BOOLEAN, SessionExpirations, UrlPatterns,
                        RequestExpirations, Flags)

\* the request is sent again in the same session: from_request on the same
\* request object, with the session's settings and new per-request arguments
FromRequestAgain ==
    /\ pc = "request"
    /\ ~call.again
    /\ FromRequestCall(request, call.original, TRUE, {call.cache_control},
                       {call.session_expire_after}, {call.urls_expire_after},
                       RequestExpirations, Flags)

RequestNext ==
    \/ AnyFromRequest
    \/ FromRequestAgain

RequestSpec == Init /\ [][RequestNext]_vars

----------------------------------------------------------------------------
(* A session: CachedSession.send, which is not among the sources, as the   *)
(* control flow the specification gives: build CacheActions from the       *)
(* request, consult the store, update_from_cached_response on what is      *)
(* found, send the request if needed, update_from_response on the answer,  *)
(* then store it, or on a 304 refresh the stored entry's expiration.       *)

MaxHistory == 2

SessionRequests ==
    [url : {URL_D1},
     headers : {WithHeader(EmptyDict, "Cache-Control", cc) : cc \in {<<>>, NO_CACHE}}]

\* what the server may answer with a 200
ServerHeaders ==
    {WithHeader(v, "Cache-Control", cc) :
        v \in Validators,
        cc \in {KV(MAX_AGE, <<"0">>), KV(MAX_AGE, <<"1">>), KV(MAX_AGE, <<"6", "0">>)}}

\* what the server may answer with a 304 to a conditional request
NotModifiedHeaders ==
    {WithHeader(v, "Cache-Control", cc) :
        v \in {EmptyDict, WithHeader(EmptyDict, "ETag", ETAG)},
        cc \in {<<>>, KV(MAX_AGE, <<"0">>), KV(MAX_AGE, <<"6", "0">>)}}

Answered(how) ==
    IF Len(history) < MaxHistory THEN Append(history, how)
    ELSE Append(Tail(history), how)

\* headers.update(more)
WithHeaders(headers, more) ==
    [h \in DOMAIN headers \cup DOMAIN more |->
        IF h \in DOMAIN more THEN more[h] ELSE headers[h]]

\* send() begins: CacheActions.from_request, cache_control on
SendFromRequest ==
    /\ pc \in {"start", "answered"}
    /\ \E req \in SessionRequests :
        FromRequestCall(req, req, FALSE, {TRUE}, {None}, {<<>>}, {None},
                        {<<FALSE, FALSE, FALSE>>})

\* the store is consulted unless skip_read; the request is sent when nothing is
\* found, or what is found is expired or to be revalidated
SendLookup ==
    /\ pc = "request"
    /\ LET cached_response == IF actions.skip_read THEN None ELSE cache
           updated ==
               IF actions.skip_read THEN actions
               ELSE update_from_cached_response(actions, cached_response, now)
           resend ==
               \/ cached_response = None
               \/ is_expired(cached_response, now)
               \/ updated.revalidate
       IN  /\ actions' = updated
           /\ call' = [op |-> "lookup", self |-> actions,
                       response |-> cached_response, now |-> now]
           /\ request' = IF resend
                          THEN [request EXCEPT
                                   !.headers = WithHeaders(@, updated.validation_headers)]
                          ELSE request
           /\ pc' = IF resend THEN "send" ELSE "answered"
           /\ history' = IF resend THEN history ELSE Answered("cache")
    /\ UNCHANGED <<cycles, heap, twin, now, cache>>

\* the server answers 200: update_from_response, then the response is stored
\* unless skip_write
SendReceive ==
    /\ pc = "send"
    /\ \E headers \in ServerHeaders :
        LET response == Response(200, headers, None)
            updated == update_from_response(actions, response)
        IN  /\ actions' = updated
            /\ call' = [op |-> "receive", self |-> actions, response |-> response,
                        now |-> now]
            /\ cache' =
                   IF updated.skip_write THEN cache
                   ELSE from_response(response,
                                      get_expiration_datetime(updated.expire_after, now))
    /\ pc' = "answered"
    /\ history' = Answered("network")
    /\ UNCHANGED <<cycles, heap, twin, now, request>>

\* the server answers 304 to a conditional request: update_from_response, then
\* reset_expiration of the stored entry with the new expire_after
SendNotModified ==
    /\ pc = "send"
    /\ cache # None
    /\ DOMAIN actions.validation_headers # {}
    /\ \E headers \in NotModifiedHeaders :
        LET response == Response(304, headers, None)
            updated == update_from_response(actions, response)
        IN  /\ actions' = updated
            /\ call' = [op |-> "not_modified", self |-> actions, response |-> response,
                        now |-> now]
            /\ cache' = reset_expiration(cache, updated.expire_after, now)
    /\ pc' = "answered"
    /\ history' = Answered("revalidated")
    /\ UNCHANGED <<cycles, heap, twin, now, request>>

SessionNext ==
    \/ Tick
    \/ SendFromRequest
    \/ SendLookup
    \/ SendReceive
    \/ SendNotModified

SessionSpec == Init /\ [][SessionNext]_vars

----------------------------------------------------------------------------
(* The life of one CachedResponse: the expiration of a CacheActions is     *)
(* read, a response is converted with from_response, converted again, and  *)
(* its expiration is reset                                                 *)

MaxRedirects == 2
MaxConversions == 3
MaxAdvance == 2

\* the expire_after values: None, ints, bools, floats (0.0, 0.5, 1.5, -1.0,
\* -1.5), strs ('0', a date, a date to come, no date) and datetimes
ExpireAfters ==
    {None, IntV(-1), IntV(0), IntV(1), IntV(60), IntV(-2), FalseV, TrueV,
     FloatV(0), FloatV(5), FloatV(15), FloatV(-10), FloatV(-15),
     StrV(<<"0">>), StrV(<<"@", "0">>), StrV(<<"@", "2">>), StrV(<<"a", "b", "c">>),
     DateV(0), DateV(2)}

DigitChar(i) == CHOOSE c \in Digits : DigitVal(c) = i

\* the i-th response of a redirect chain, with the history it is left with
RedirectResponse(i, redirects) ==
    FullResponse("Response", 302, "Location" :> <<"/", DigitChar(i)>>, None, <<>>,
                 redirects, None)

\* requests.Session.resolve_redirects: the i-th redirect is left with the
\* redirects after the first one as its own history
RedirectChain(n) ==
    [i \in 1..n |->
        RedirectResponse(i, [j \in 1..(i - 1) |-> RedirectResponse(j + 1, <<>>)])]

BODY == <<"o", "k">>

\* what a request ends with: a 200, a 201 with a Location, a 302 without one,
\* or a response that is itself a redirect
LiveResponses ==
    {FullResponse("Response", status_code, headers, None, BODY, RedirectChain(n), None) :
        status_code \in {200, 201, 302}, headers \in {EmptyDict, "Location" :> <<"/", "9">>},
        n \in 0..MaxRedirects}

\* CachedResponses as the cache returns them, with their cache_key set or not
StoredResponses ==
    {[from_response(r, e) EXCEPT !.cache_key = k] :
        r \in {x \in LiveResponses : x.status_code # 201}, e \in {None, DateV(1)},
        k \in {None, StrV(<<"k">>)}}

OriginalResponses == LiveResponses \cup StoredResponses

\* a CacheActions instance with some expire_after
ExpirationFromRequest ==
    /\ pc = "start"
    /\ FromRequestCall([url |-> URL_D1, headers |-> EmptyDict],
                       [url |-> URL_D1, headers |-> EmptyDict], FALSE, {FALSE},
                       ExpireAfters, {<<>>}, {None}, {<<FALSE, FALSE, FALSE>>})

\* CacheActions.expires is read
Expires ==
    /\ pc = "request"
    /\ call' = [op |-> "expires", self |-> actions, now |-> now,
                returned |-> CacheActions_expires(actions, now)]
    /\ pc' = "expires"
    /\ UNCHANGED <<cycles, heap, now, request, actions, cache, history, twin>>

\* CachedResponse.from_response(original_response) or
\* CachedResponse.from_response(original_response, actions.expires)
FromResponse ==
    /\ pc = "expires"
    /\ \E original_response \in OriginalResponses, given \in BOOLEAN :
        LET expires_argument == IF given THEN call.returned ELSE None
        IN  /\ cache' = from_response(original_response, expires_argument)
            /\ call' = [op |-> "from_response", original_response |-> original_response,
                        expires |-> expires_argument,
                        first |-> IF original_response.t = "CachedResponse"
                                  THEN original_response ELSE None,
                        conversions |-> 1]
    /\ pc' = "stored"
    /\ UNCHANGED <<cycles, heap, now, request, actions, history, twin>>

\* from_response on the CachedResponse the last from_response returned; first
\* is the first CachedResponse the row of conversions was given
FromResponseAgain ==
    /\ pc = "stored"
    /\ call.op = "from_response"
    /\ call.conversions < MaxConversions
    /\ \E expires_argument \in {None, DateV(now + 1)} :
        /\ cache' = from_response(cache, expires_argument)
        /\ call' = [op |-> "from_response", original_response |-> cache,
                    expires |-> expires_argument,
                    first |-> IF call.first = None THEN cache ELSE call.first,
                    conversions |-> call.conversions + 1]
    /\ UNCHANGED <<cycles, heap, now, request, actions, pc, history, twin>>

\* response.reset_expiration(actions.expire_after); the clock may advance
\* between the utcnow() of get_expiration_datetime and that of is_expired
ResetExpiration ==
    /\ pc = "stored"
    /\ \E later \in now..MaxNow :
        LET response == reset_expiration(cache, actions.expire_after, now)
        IN  /\ cache' = response
            /\ now' = later
            /\ call' = [op |-> "reset_expiration", self |-> cache,
                        expire_after |-> actions.expire_after, now |-> now,
                        returned |-> is_expired(response, later)]
    /\ UNCHANGED <<cycles, heap, request, actions, pc, history, twin>>

\* response.ttl is read; the clock may advance by up to MaxAdvance seconds
\* between the utcnow() of is_expired and that of the subtraction
Ttl ==
    /\ pc = "stored"
    /\ \E later \in now..(now + MaxAdvance) :
        /\ now' = later
        /\ call' = [op |-> "ttl", self |-> cache, now |-> now, later |-> later,
                    returned |-> ttl(cache, now, later)]
    /\ pc' = "ttl"
    /\ UNCHANGED <<cycles, heap, request, actions, cache, history, twin>>

\* get_expiration_seconds(actions.expire_after); the clock may advance
\* between the utcnow() of get_expiration_datetime and that of the subtraction
GetExpirationSeconds ==
    /\ pc = "request"
    /\ \E later \in now..MaxNow :
        /\ now' = later
        /\ call' = [op |-> "get_expiration_seconds", expire_after |-> actions.expire_after,
                    now |-> now, later |-> later,
                    returned |-> get_expiration_seconds(actions.expire_after, now, later)]
    /\ pc' = "seconds"
    /\ UNCHANGED <<cycles, heap, request, actions, cache, history, twin>>

ResponseNext ==
    \/ Tick
    \/ ExpirationFromRequest
    \/ Expires
    \/ GetExpirationSeconds
    \/ Ttl
    \/ FromResponse
    \/ FromResponseAgain
    \/ ResetExpiration

ResponseSpec == Init /\ [][ResponseNext]_vars

----------------------------------------------------------------------------
(* The parsing of the headers alone *)

MaxDirectives == 2

\* max-age=60, max-age=0, max-age=abc, no-cache, ' no-store', immutable,
\* 'max-age=', a=b=c, '', max-age=-1, 'max-age= 7 ', '=5'
DirectiveTokens ==
    {<<"m", "a", "x", "-", "a", "g", "e", "=", "6", "0">>,
     <<"m", "a", "x", "-", "a", "g", "e", "=", "0">>,
     <<"m", "a", "x", "-", "a", "g", "e", "=", "a", "b", "c">>,
     <<"n", "o", "-", "c", "a", "c", "h", "e">>,
     <<" ", "n", "o", "-", "s", "t", "o", "r", "e">>,
     <<"i", "m", "m", "u", "t", "a", "b", "l", "e">>,
     <<"m", "a", "x", "-", "a", "g", "e", "=">>,
     <<"a", "=", "b", "=", "c">>,
     <<>>,
     <<"m", "a", "x", "-", "a", "g", "e", "=", "-", "1">>,
     <<"m", "a", "x", "-", "a", "g", "e", "=", " ", "7", " ">>,
     <<"=", "5">>}

\* ','.join(tokens)
RECURSIVE Join(_)
Join(tokens) ==
    IF Len(tokens) = 1 THEN tokens[1]
    ELSE tokens[1] \o <<",">> \o Join(Tail(tokens))

\* the header mappings: Cache-Control and Expires are absent, empty or set, and
\* another header is there or not; and None, for no headers at all
DirectiveHeaders ==
    {None}
    \cup {[name \in read \cup other |->
              IF name = "Cache-Control" THEN cc
              ELSE IF name = "Expires" THEN e ELSE ETAG] :
             read \in SUBSET {"Cache-Control", "Expires"}, other \in SUBSET {"ETag"},
             cc \in {Join(tokens) :
                        tokens \in UNION {[1..n -> DirectiveTokens] : n \in 1..MaxDirectives}},
             e \in {<<>>, <<"0">>, HTTPDATE}}

\* split_kv_directive(header_value)
SplitKvDirective ==
    /\ pc = "start"
    /\ \E header_value \in DirectiveTokens :
        call' = [op |-> "split_kv_directive", header_value |-> header_value,
                 returned |-> split_kv_directive(header_value)]
    /\ pc' = "done"
    /\ UNCHANGED <<cycles, heap, now, request, actions, cache, history, twin>>

\* get_cache_directives(headers)
GetCacheDirectives ==
    /\ pc = "start"
    /\ \E headers \in DirectiveHeaders :
        call' = [op |-> "get_cache_directives", headers |-> headers,
                 returned |-> get_cache_directives(headers)]
    /\ pc' = "done"
    /\ UNCHANGED <<cycles, heap, now, request, actions, cache, history, twin>>

DirectivesNext ==
    \/ SplitKvDirective
    \/ GetCacheDirectives

DirectivesSpec == Init /\ [][DirectivesNext]_vars

----------------------------------------------------------------------------
(* URL matching alone *)

\* the URLs and patterns of the examples in the docstring of url_match
URL_DELAY_1 ==
    <<"h", "t", "t", "p", "s", ":", "/", "/", "h", "t", "t", "p", "b", "i",
    "n", ".", "o", "r", "g", "/", "d", "e", "l", "a", "y", "/", "1">>

URL_STREAM_1 ==
    <<"h", "t", "t", "p", "s", ":", "/", "/", "h", "t", "t", "p", "b", "i",
    "n", ".", "o", "r", "g", "/", "s", "t", "r", "e", "a", "m", "/", "1">>

URL_STREAM_2 ==
    <<"h", "t", "t", "p", "s", ":", "/", "/", "h", "t", "t", "p", "b", "i",
    "n", ".", "o", "r", "g", "/", "s", "t", "r", "e", "a", "m", "/", "2">>

PATTERN_DELAY ==
    <<"h", "t", "t", "p", "b", "i", "n", ".", "o", "r", "g", "/", "d", "e",
    "l", "a", "y">>

PATTERN_ANY_1 ==
    <<"h", "t", "t", "p", "b", "i", "n", ".", "o", "r", "g", "/", "*", "/",
    "1">>

\* the URLs: those of the docstring, httpbin.org/delay,
\* http://a.io/r?u=http://b.io, http://b.io, a.io/d/1, http://a.io,
\* ftp://a.io/d, a.io
MatchUrls ==
    {URL_DELAY_1,
     URL_STREAM_1,
     URL_STREAM_2,
     PATTERN_DELAY,
     <<"h", "t", "t", "p", ":", "/", "/", "a", ".", "i", "o", "/", "r", "?",
       "u", "=", "h", "t", "t", "p", ":", "/", "/", "b", ".", "i", "o">>,
     <<"h", "t", "t", "p", ":", "/", "/", "b", ".", "i", "o">>,
     <<"a", ".", "i", "o", "/", "d", "/", "1">>,
     <<"h", "t", "t", "p", ":", "/", "/", "a", ".", "i", "o">>,
     <<"f", "t", "p", ":", "/", "/", "a", ".", "i", "o", "/", "d">>,
     <<"a", ".", "i", "o">>}

\* the patterns: httpbin.org/delay, httpbin.org/*/1, a.io, b.io, a.io/d*,
\* *, https://a.io/, a.io/?/1, httpbin.org/stream/**, http://a.io/r?u=http://b.io
MatchPatterns ==
    {PATTERN_DELAY,
     PATTERN_ANY_1,
     <<"a", ".", "i", "o">>,
     <<"b", ".", "i", "o">>,
     <<"a", ".", "i", "o", "/", "d", "*">>,
     <<"*">>,
     <<"h", "t", "t", "p", "s", ":", "/", "/", "a", ".", "i", "o", "/">>,
     <<"a", ".", "i", "o", "/", "?", "/", "1">>,
     <<"h", "t", "t", "p", "b", "i", "n", ".", "o", "r", "g", "/", "s", "t",
       "r", "e", "a", "m", "/", "*", "*">>,
     <<"h", "t", "t", "p", ":", "/", "/", "a", ".", "i", "o", "/", "r", "?",
       "u", "=", "h", "t", "t", "p", ":", "/", "/", "b", ".", "i", "o">>}

\* url_match(url, pattern)
UrlMatch ==
    /\ pc = "start"
    /\ \E url \in MatchUrls, pattern \in MatchPatterns :
        call' = [op |-> "url_match", url |-> url, pattern |-> pattern,
                 returned |-> url_match(url, pattern)]
    /\ pc' = "done"
    /\ UNCHANGED <<cycles, heap, now, request, actions, cache, history, twin>>

UrlNext == UrlMatch

UrlSpec == Init /\ [][UrlNext]_vars

----------------------------------------------------------------------------
(* Two cycles side by side, each with its own CacheActions instance, given  *)
(* the same settings and the same cached response; their requests and      *)
(* their responses differ at most in the Cache-Control and Expires headers *)

CacheHeaders == {"Cache-Control", "Expires"}

\* the two header mappings are equal but for Cache-Control and Expires
SameButCacheHeaders(h1, h2) ==
    /\ DOMAIN h1 \ CacheHeaders = DOMAIN h2 \ CacheHeaders
    /\ \A name \in DOMAIN h1 \ CacheHeaders : h1[name] = h2[name]

TwinRequests ==
    [url : {URL_D1},
     headers : {WithHeader(WithHeader(EmptyDict, "Cache-Control", cc), "Expires", e) :
                   cc \in {<<>>, KV(MAX_AGE, <<"0">>), KV(MAX_AGE, <<"3", "6", "0">>),
                           NO_STORE},
                   e \in {<<>>, HTTPDATE}}]

TwinCachedResponses ==
    {None,
     CachedResponse(200, WithHeader(EmptyDict, "ETag", ETAG), DateV(1)),
     CachedResponse(200, WithHeader(EmptyDict, "Cache-Control", NO_CACHE), None)}

TwinResponses ==
    {None}
    \cup {Response(200, WithHeader(WithHeader(v, "Cache-Control", cc), "Expires", e), None) :
             v \in {EmptyDict, WithHeader(EmptyDict, "ETag", ETAG)},
             cc \in {<<>>, KV(MAX_AGE, <<"0">>), KV(MAX_AGE, <<"6", "0">>), NO_STORE},
             e \in {<<>>, HTTPDATE}}

\* both cycles start: CacheActions.from_request, once for each request
TwinFromRequest ==
    /\ pc = "start"
    /\ \E req \in TwinRequests, other \in TwinRequests, cache_control \in BOOLEAN,
          session_expire_after \in {None, IntV(60)} :
        /\ req.url = other.url
        /\ SameButCacheHeaders(req.headers, other.headers)
        /\ actions' = from_request("key", req, cache_control, session_expire_after,
                                   <<>>, None, FALSE, FALSE, FALSE)
        /\ twin' = from_request("key", other, cache_control, session_expire_after,
                                <<>>, None, FALSE, FALSE, FALSE)
        /\ request' = request_after_from_request(req)
        /\ call' = [op |-> "from_request", again |-> FALSE, original |-> req,
                    request |-> req, twin_request |-> other,
                    cache_control |-> cache_control,
                    session_expire_after |-> session_expire_after,
                    urls_expire_after |-> <<>>, request_expire_after |-> None,
                    only_if_cached |-> FALSE, refresh |-> FALSE, revalidate |-> FALSE]
    /\ pc' = "request"
    /\ UNCHANGED <<cycles, heap, now, cache, history>>

\* both cycles find the same cached response
TwinUpdateFromCachedResponse ==
    /\ pc = "request"
    /\ \E response \in TwinCachedResponses :
        /\ actions' = update_from_cached_response(actions, response, now)
        /\ twin' = update_from_cached_response(twin, response, now)
        /\ call' = [op |-> "update_from_cached_response", self |-> actions,
                    twin_self |-> twin, response |-> response, now |-> now]
    /\ pc' = "cached"
    /\ UNCHANGED <<cycles, heap, now, request, cache, history>>

\* each cycle receives its response
TwinUpdateFromResponse ==
    /\ pc \in {"request", "cached"}
    /\ \E response \in TwinResponses, other \in TwinResponses :
        /\ (response = None) = (other = None)
        /\ response # None =>
               /\ response.status_code = other.status_code
               /\ SameButCacheHeaders(response.headers, other.headers)
        /\ actions' = update_from_response(actions, response)
        /\ twin' = update_from_response(twin, other)
        /\ call' = [op |-> "update_from_response", self |-> actions,
                    twin_self |-> twin, response |-> response,
                    twin_response |-> other]
    /\ pc' = "done"
    /\ UNCHANGED <<cycles, heap, now, request, cache, history>>

TwinNext ==
    \/ Tick
    \/ TwinFromRequest
    \/ TwinUpdateFromCachedResponse
    \/ TwinUpdateFromResponse

TwinSpec == Init /\ [][TwinNext]_vars

----------------------------------------------------------------------------
(* Two cycles at once, their steps interleaved, each with its own           *)
(* CacheActions instance, request and responses. The validation_headers of  *)
(* an instance is a dict object that update_from_cached_response writes     *)
(* into: the field holds its address in the heap. alone is the instance as  *)
(* the cycle computes it when it runs by itself.                            *)

\* a variant: field(default={}), one dict for all the instances
validation_headers_shared_default(i, dicts) == <<0, dicts>>

\* cache_control.py:74: field(factory=dict) gives the i-th instance a dict of
\* its own; the address of the dict and the heap with it
validation_headers_factory(i, dicts) == <<i, [dicts EXCEPT ![i] = EmptyDict]>>

\* the instance with the dict that its field refers to
Deref(self, dicts) == [self EXCEPT !.validation_headers = dicts[@]]

ConcurrentRequests ==
    [url : {URL_D1},
     headers : {EmptyDict, WithHeader(EmptyDict, "Cache-Control", NO_CACHE)}]

ConcurrentCachedResponses ==
    {None,
     CachedResponse(200, WithHeader(EmptyDict, "ETag", ETAG), DateV(1)),
     CachedResponse(200, WithHeader(WithHeader(EmptyDict, "Last-Modified", LAST_MODIFIED),
                                    "Cache-Control", NO_CACHE), None),
     CachedResponse(200, EmptyDict, DateV(0))}

ConcurrentResponses ==
    {None,
     Response(200, WithHeader(EmptyDict, "Cache-Control", KV(MAX_AGE, <<"6", "0">>)), None),
     Response(200, WithHeader(EmptyDict, "Cache-Control", NO_STORE), None)}

\* cycle i starts: CacheActions.from_request on its request
ConcurrentFromRequest(i) ==
    /\ cycles[i].pc = "start"
    /\ \E req \in ConcurrentRequests, cache_control \in BOOLEAN :
        LET obj == from_request("key", req, cache_control, IntV(60), <<>>, None,
                                FALSE, FALSE, FALSE)
            made == validation_headers_factory(i, heap)
        IN  /\ heap' = made[2]
            /\ cycles' = [cycles EXCEPT ![i] =
                   [pc |-> "request",
                    self |-> [obj EXCEPT !.validation_headers = made[1]],
                    alone |-> obj]]
    /\ call' = [op |-> "from_request", cycle |-> i]
    /\ UNCHANGED <<now, request, actions, pc, cache, history, twin>>

\* cycle i is given what the cache holds for its key
ConcurrentUpdateFromCachedResponse(i) ==
    /\ cycles[i].pc = "request"
    /\ \E response \in ConcurrentCachedResponses :
        LET self == update_from_cached_response(Deref(cycles[i].self, heap), response, now)
            address == cycles[i].self.validation_headers
        IN  /\ heap' = [heap EXCEPT ![address] = self.validation_headers]
            /\ cycles' = [cycles EXCEPT ![i] =
                   [pc |-> "cached",
                    self |-> [self EXCEPT !.validation_headers = address],
                    alone |-> update_from_cached_response(cycles[i].alone, response, now)]]
    /\ call' = [op |-> "update_from_cached_response", cycle |-> i]
    /\ UNCHANGED <<now, request, actions, pc, cache, history, twin>>

\* cycle i receives its response
ConcurrentUpdateFromResponse(i) ==
    /\ cycles[i].pc \in {"request", "cached"}
    /\ \E response \in ConcurrentResponses :
        LET self == update_from_response(Deref(cycles[i].self, heap), response)
            address == cycles[i].self.validation_headers
        IN  /\ heap' = [heap EXCEPT ![address] = self.validation_headers]
            /\ cycles' = [cycles EXCEPT ![i] =
                   [pc |-> "done",
                    self |-> [self EXCEPT !.validation_headers = address],
                    alone |-> update_from_response(cycles[i].alone, response)]]
    /\ call' = [op |-> "update_from_response", cycle |-> i]
    /\ UNCHANGED <<now, request, actions, pc, cache, history, twin>>

ConcurrentNext ==
    \/ Tick
    \/ \E i \in Cycles : ConcurrentFromRequest(i)
    \/ \E i \in Cycles : ConcurrentUpdateFromCachedResponse(i)
    \/ \E i \in Cycles : ConcurrentUpdateFromResponse(i)

ConcurrentSpec == Init /\ [][ConcurrentNext]_vars

----------------------------------------------------------------------------
(* What the claims read of a call *)

AfterFromRequest == call.op = "from_request"

RequestDirectives == get_cache_directives(call.request.headers)

\* the value of the first pattern, in insertion order, that matches the URL
FirstMatchingPattern(url, patterns) ==
    LET matching == {i \in 1..Len(patterns) : url # <<>> /\ url_match(url, patterns[i][1])}
    IN  IF matching = {} THEN None
        ELSE patterns[CHOOSE i \in matching : \A j \in matching : i <= j][2]

\* update_from_response has acted on a truthy response with cache_control set
AfterResponse ==
    /\ call.op = "update_from_response"
    /\ call.self.cache_control
    /\ Truthy(call.response)

ResponseDirectives == get_cache_directives(call.response.headers)

ExpiresHeader(headers) ==
    IF "Expires" \in DOMAIN headers THEN StrV(headers["Expires"]) ELSE None

\* update_from_cached_response has acted on a truthy cached response
AfterCachedResponse ==
    call.op = "update_from_cached_response" /\ Truthy(call.response)

----------------------------------------------------------------------------
C10_SkipRead ==
    AfterFromRequest =>
        /\ actions.skip_read =
               \/ actions.skip_write
               \/ call.refresh
               \/ "requests-cache-refresh" \in DOMAIN call.request.headers
        /\ actions.skip_write => actions.skip_read
        /\ "requests-cache-refresh" \notin DOMAIN request.headers
        /\ call.again => actions.skip_read = (actions.skip_write \/ call.refresh)

\* the second call on a request that carried the header does not skip the read
C10_Witness ==
    /\ AfterFromRequest
    /\ call.again
    /\ "requests-cache-refresh" \in DOMAIN call.original.headers
    /\ ~actions.skip_read

C3_RequestMaxAgeWins ==
    (/\ AfterResponse
     /\ Get(call.self.request_directives, MAX_AGE).t = "int"
     /\ Get(ResponseDirectives, MAX_AGE).t = "int")
        => actions.expire_after = Get(call.self.request_directives, MAX_AGE)

C5_NoStoreNeverWritten ==
    (actions # NoActions /\ NO_STORE \in DOMAIN actions.request_directives)
        => actions.skip_write

(* C6: after update_from_cached_response on a truthy cached response,      *)
(* revalidate is true iff the response has an ETag or a Last-Modified and  *)
(* it is expired, or revalidate was true before, or its directives have    *)
(* no-cache, or must-revalidate with max-age equal to 0; on an absent (or  *)
(* falsy) cached response nothing changes.                                 *)
C6_Revalidate ==
    call.op = "update_from_cached_response" =>
        IF Truthy(call.response)
        THEN LET headers == call.response.headers
                 directives == get_cache_directives(headers)
                 expired ==
                     /\ call.response.expires # None
                     /\ call.now >= call.response.expires.v
             IN  actions.revalidate =
                     /\ "ETag" \in DOMAIN headers \/ "Last-Modified" \in DOMAIN headers
                     /\ \/ expired
                        \/ call.self.revalidate
                        \/ NO_CACHE \in DOMAIN directives
                        \/ /\ MUST_REVALIDATE \in DOMAIN directives
                           /\ Get(directives, MAX_AGE) = IntV(0)
        ELSE actions = call.self

\* revalidate was true before the call and is false after it: no validator
C6_Witness ==
    /\ AfterCachedResponse
    /\ call.self.revalidate
    /\ ~actions.revalidate

(* C7: after update_from_cached_response on a truthy cached response,      *)
(* If-None-Match is set, to the cached ETag, exactly when revalidate is    *)
(* true and the response has an ETag; If-Modified-Since is set, to the     *)
(* cached Last-Modified, exactly when revalidate is true and the response  *)
(* has a Last-Modified; nothing else is in validation_headers.             *)
C7_ValidationHeaders ==
    AfterCachedResponse =>
        LET headers == call.response.headers
            validation_headers == actions.validation_headers
        IN  /\ "If-None-Match" \in DOMAIN validation_headers
                   <=> (actions.revalidate /\ "ETag" \in DOMAIN headers)
            /\ "If-None-Match" \in DOMAIN validation_headers
                   => validation_headers["If-None-Match"] = headers["ETag"]
            /\ "If-Modified-Since" \in DOMAIN validation_headers
                   <=> (actions.revalidate /\ "Last-Modified" \in DOMAIN headers)
            /\ "If-Modified-Since" \in DOMAIN validation_headers
                   => validation_headers["If-Modified-Since"] = headers["Last-Modified"]
            /\ DOMAIN validation_headers \subseteq {"If-None-Match", "If-Modified-Since"}

\* both conditional headers are set
C7_Witness ==
    /\ AfterCachedResponse
    /\ DOMAIN actions.validation_headers = {"If-None-Match", "If-Modified-Since"}

(* C8: with cache_control set, an entry stored from a response with        *)
(* max-age=0 and a validator is expired at once and the next request       *)
(* revalidates it; a 304 answer carrying max-age=60 makes                  *)
(* update_from_response set expire_after to 60 and reset_expiration move   *)
(* the entry's expiration 60 seconds ahead, so that it is not expired; the *)
(* following request finds the entry fresh, update_from_cached_response    *)
(* leaves revalidate false, and the entry is served without a request      *)
(* being sent.                                                             *)
C8_RevalidationRefreshes ==
    LET zero_with_validator(response) ==
            /\ response # None
            /\ has_validator(response.headers)
            /\ get_cache_directives(response.headers) = (MAX_AGE :> IntV(0))
    IN  /\ (call.op = "receive" /\ zero_with_validator(call.response)) =>
               /\ ~actions.skip_write
               /\ cache.headers = call.response.headers
               /\ cache.expires = DateV(call.now)
               /\ is_expired(cache, now)
        /\ (/\ call.op = "lookup"
            /\ zero_with_validator(call.response)
            /\ is_expired(call.response, call.now)) =>
               /\ actions.revalidate
               /\ DOMAIN actions.validation_headers # {}
               /\ pc = "send"
        /\ (/\ call.op = "not_modified"
            /\ Get(get_cache_directives(call.response.headers), MAX_AGE) = IntV(60)) =>
               /\ actions.expire_after = IntV(60)
               /\ cache.expires = DateV(call.now + 60)
               /\ is_expired(cache, now) <=> now >= call.now + 60
        /\ (/\ call.op = "lookup"
            /\ zero_with_validator(call.response)
            /\ ~is_expired(call.response, call.now)
            /\ ~call.self.revalidate) =>
               /\ ~actions.revalidate
               /\ actions.validation_headers = EmptyDict
               /\ pc = "answered"
               /\ history[Len(history)] = "cache"

\* the entry with max-age=0 was refreshed by a 304 and has then been served
\* from the cache
C8_Witness ==
    /\ pc = "answered"
    /\ history = <<"revalidated", "cache">>
    /\ call.op = "lookup"
    /\ has_validator(cache.headers)
    /\ get_cache_directives(cache.headers) = (MAX_AGE :> IntV(0))
    /\ cache.expires # None
    /\ cache.expires.v >= 60
    /\ ~actions.revalidate

(* C11: after from_request, only_if_cached is true iff the only_if_cached  *)
(* argument is true or the request's directives have only-if-cached, and   *)
(* revalidate is true iff the revalidate argument is true or the request's *)
(* directives have no-cache, whether cache_control is set or not.          *)
C11_OnlyIfCachedAndRevalidate ==
    AfterFromRequest =>
        /\ actions.only_if_cached =
               (call.only_if_cached \/ ONLY_IF_CACHED \in DOMAIN RequestDirectives)
        /\ actions.revalidate =
               (call.revalidate \/ NO_CACHE \in DOMAIN RequestDirectives)

\* cache_control is off, the revalidate argument is false and the request
\* carries no-cache: revalidate is true and only_if_cached is false
C11_Witness ==
    /\ AfterFromRequest
    /\ ~call.cache_control
    /\ ~call.revalidate
    /\ ~call.only_if_cached
    /\ NO_CACHE \in DOMAIN RequestDirectives
    /\ actions.revalidate
    /\ ~actions.only_if_cached

(* C12: update_from_response changes no field of the CacheActions when the *)
(* response is absent or cache_control is false, whatever headers the      *)
(* response carries.                                                       *)
C12_UpdateFromResponseNoOp ==
    (/\ call.op = "update_from_response"
     /\ (call.response = None \/ ~call.self.cache_control))
        => actions = call.self

\* cache_control is off and the response says max-age=0 without a validator:
\* the expiration of 60 and skip_write false stay as they were
C12_Witness ==
    /\ call.op = "update_from_response"
    /\ ~call.self.cache_control
    /\ Truthy(call.response)
    /\ Get(ResponseDirectives, MAX_AGE) = IntV(0)
    /\ ~has_validator(call.response.headers)
    /\ call.self.expire_after = IntV(60)
    /\ ~call.self.skip_write
    /\ actions = call.self

(* C13: no headers are used when cache_control is false: two cycles that   *)
(* differ only in the Cache-Control and Expires headers of their requests  *)
(* and of their responses end with the same expire_after and the same      *)
(* skip_write.                                                             *)
C13_NoHeadersUsed ==
    (pc = "done" /\ twin # NoActions /\ ~actions.cache_control) =>
        /\ actions.expire_after = twin.expire_after
        /\ actions.skip_write = twin.skip_write

(* C14: with cache_control set and a truthy response, whenever the         *)
(* response's Cache-Control has the immutable directive,                   *)
(* update_from_response sets expire_after to NEVER_EXPIRE, whatever the    *)
(* response's max-age and Expires and the expiration held before are.      *)
C14_ImmutableNeverExpires ==
    (AfterResponse /\ IMMUTABLE \in DOMAIN ResponseDirectives)
        => actions.expire_after = IntV(NEVER_EXPIRE)

(* C15: for every expire_after equal to 0 (the int, the float 0.0, False)  *)
(* the datetime got from it is not later than now, and a CachedResponse    *)
(* given it is expired at once: reset_expiration returns true and          *)
(* is_expired is true after it.                                            *)
C15_ZeroExpiresAtOnce ==
    /\ (call.op = "expires" /\ EqualsInt(call.self.expire_after, 0)) =>
           /\ call.returned # None
           /\ NotBefore(now, call.returned)
    /\ (call.op = "reset_expiration" /\ EqualsInt(call.expire_after, 0)) =>
           /\ cache.expires # None
           /\ NotBefore(now, cache.expires)
           /\ call.returned
           /\ is_expired(cache, now)

\* reset_expiration(0.0) of a response that never expired, the clock standing
\* still during the call: it returns true
C15_Witness ==
    /\ call.op = "reset_expiration"
    /\ call.expire_after = FloatV(0)
    /\ call.self.expires = None
    /\ now = call.now
    /\ cache.expires = DateV(now)
    /\ call.returned

(* C16: for every expire_after that is None or equal to NEVER_EXPIRE,      *)
(* get_expiration_datetime returns None: CacheActions.expires is None, and *)
(* reset_expiration with it leaves expires None and returns false.         *)
C16_NeverExpires ==
    /\ (/\ call.op = "expires"
        /\ (call.self.expire_after = None
            \/ EqualsInt(call.self.expire_after, NEVER_EXPIRE))) =>
           call.returned = None
    /\ (/\ call.op = "reset_expiration"
        /\ (call.expire_after = None \/ EqualsInt(call.expire_after, NEVER_EXPIRE))) =>
           /\ cache.expires = None
           /\ ~call.returned
           /\ ~is_expired(cache, now)

\* reset_expiration(-1) of a response that was expired: it is no longer
C16_Witness ==
    /\ call.op = "reset_expiration"
    /\ call.expire_after = IntV(NEVER_EXPIRE)
    /\ is_expired(call.self, call.now)
    /\ cache.expires = None
    /\ ~call.returned

(* C17: from_response of a CachedResponse, once or several times in a row, *)
(* returns a CachedResponse with the body, the headers, the status code    *)
(* and the history of the one it was first given; expires is the expires   *)
(* argument, None when none is given, and cache_key may differ.            *)
C17_RestampingRoundTrip ==
    (call.op = "from_response" /\ call.original_response.t = "CachedResponse") =>
        /\ cache.t = "CachedResponse"
        /\ \A original \in {call.original_response, call.first} :
               /\ cache.content = original.content
               /\ cache.headers = original.headers
               /\ cache.status_code = original.status_code
               /\ cache.history = original.history
        /\ cache.expires = call.expires

\* a stored response with a history, an expiration and a cache key, converted
\* twice, the second time without expires: expires and cache_key are None
C17_Witness ==
    /\ call.op = "from_response"
    /\ call.conversions = 2
    /\ call.first.t = "CachedResponse"
    /\ call.first.history # <<>>
    /\ call.first.expires # None
    /\ call.first.cache_key # None
    /\ call.original_response.expires # None
    /\ call.expires = None
    /\ cache.expires = None
    /\ cache.cache_key = None
    /\ cache.history = call.first.history

TokensOf(headers) ==
    IF headers # None /\ "Cache-Control" \in DOMAIN headers
       /\ headers["Cache-Control"] # <<>>
    THEN Split(headers["Cache-Control"], ",")
    ELSE <<>>

\* a token without '=' is bare; of key=value, the key is what precedes the
\* first '=' and the value what follows it
IsBare(token) == "=" \notin {token[i] : i \in 1..Len(token)}

KeyOf(token) ==
    LET stripped == Strip(token)
    IN  IF IsBare(token) THEN stripped
        ELSE SubSeq(stripped, 1, IndexOf(stripped, "=") - 1)

ValueOf(token) ==
    LET stripped == Strip(token)
    IN  SubSeq(stripped, IndexOf(stripped, "=") + 1, Len(stripped))

HasExpiresHeader(headers) == headers # None /\ "Expires" \in DOMAIN headers

\* the i-th token is the one that decides the value of its key: no later token
\* has the key, and the key is not the one the Expires header is put under
Decides(headers, i) ==
    LET tokens == TokensOf(headers)
    IN  /\ \A j \in (i + 1)..Len(tokens) : KeyOf(tokens[j]) # KeyOf(tokens[i])
        /\ ~(HasExpiresHeader(headers) /\ KeyOf(tokens[i]) = EXPIRES)

\* the value of a token that is bare or key=integer
UsualValue(token) == IF IsBare(token) THEN TrueV ELSE ParseInt(ValueOf(token))

C20_GetCacheDirectives ==
    /\ (call.op = "split_kv_directive" /\ call.header_value = KV(MAX_AGE, <<"6", "0">>))
           => call.returned = <<MAX_AGE, IntV(60)>>
    /\ (call.op = "split_kv_directive" /\ call.header_value = NO_CACHE)
           => call.returned = <<NO_CACHE, TrueV>>
    /\ call.op = "get_cache_directives" =>
           LET headers == call.headers
               tokens == TokensOf(headers)
           IN  /\ DOMAIN call.returned =
                      {KeyOf(tokens[i]) : i \in 1..Len(tokens)}
                      \cup (IF HasExpiresHeader(headers) THEN {EXPIRES} ELSE {})
               /\ \A i \in 1..Len(tokens) :
                      (Decides(headers, i) /\ UsualValue(tokens[i]) # None) =>
                          call.returned[KeyOf(tokens[i])] = UsualValue(tokens[i])
               /\ HasExpiresHeader(headers) =>
                      call.returned[EXPIRES] = StrV(headers["Expires"])
               /\ (headers = None \/ DOMAIN headers = {}) => call.returned = EmptyDict

\* 'max-age=60,max-age=0' with an Expires header: max-age is 0
C20_Witness ==
    /\ call.op = "get_cache_directives"
    /\ TokensOf(call.headers) = <<KV(MAX_AGE, <<"6", "0">>), KV(MAX_AGE, <<"0">>)>>
    /\ HasExpiresHeader(call.headers)
    /\ call.returned =
           [k \in {MAX_AGE, EXPIRES} |-> IF k = MAX_AGE THEN IntV(0) ELSE StrV(HTTPDATE)]

\* s without its protocol scheme: what follows the first '://', s when there
\* is none
WithoutScheme(s) ==
    LET hits == {i \in 1..Len(s) : StartsAt(s, SCHEME_SEP, i)}
    IN  IF hits = {} THEN s
        ELSE LET i == CHOOSE h \in hits : \A g \in hits : h <= g
             IN  SubSeq(s, i + Len(SCHEME_SEP), Len(s))

IsPrefix(p, s) == Len(p) <= Len(s) /\ SubSeq(s, 1, Len(p)) = p

HasWildcard(p) == \E i \in 1..Len(p) : p[i] \in {"*", "?", "["}

(* C21: url_match(url, pattern) is true iff the URL without its scheme     *)
(* matches, as a glob, the pattern without its scheme and with its         *)
(* trailing '*' replaced by a recursive wildcard; a pattern without        *)
(* wildcards matches exactly the URLs it is a prefix of; the three         *)
(* examples of the docstring give true, true and false.                    *)
C21_UrlMatch ==
    call.op = "url_match" =>
        LET url == WithoutScheme(call.url)
            pattern == WithoutScheme(call.pattern)
        IN  /\ call.returned = fnmatch(url, RStripChar(pattern, "*") \o <<"*", "*">>)
            /\ ~HasWildcard(pattern) => (call.returned = IsPrefix(pattern, url))
            /\ (call.url = URL_DELAY_1 /\ call.pattern = PATTERN_DELAY) => call.returned
            /\ (call.url = URL_STREAM_1 /\ call.pattern = PATTERN_ANY_1) => call.returned
            /\ (call.url = URL_STREAM_2 /\ call.pattern = PATTERN_ANY_1) => ~call.returned

\* CacheActions.expires has been read after update_from_response, with
\* cache_control set, on a response whose Expires header is no HTTP date
AfterUnparseableExpires ==
    /\ call.op = "expires"
    /\ call.self.cache_control
    /\ call.response # None
    /\ "Expires" \in DOMAIN call.response.headers
    /\ parsedate_to_datetime(call.response.headers["Expires"]) = ValueError

\* update_from_response takes its expire_after from the Expires header: the
\* response is ok, has no immutable directive that counts as true and no
\* integer max-age
ExpiresHeaderDecides ==
    /\ Truthy(call.response)
    /\ Get(get_cache_directives(call.response.headers), IMMUTABLE) \in {None, IntV(0)}
    /\ Get(get_cache_directives(call.response.headers), MAX_AGE) = None

IsWholeSeconds(x) ==
    \/ x.t = "int" /\ x.v >= 0
    \/ x.t = "float" /\ x.v >= 0 /\ x.v % 10 = 0

WholeSeconds(x) == IF x.t = "int" THEN x.v ELSE x.v \div 10

(* C23: get_expiration_seconds(expire_after) returns NEVER_EXPIRE (-1) when *)
(* get_expiration_datetime(expire_after) is None, and otherwise the least   *)
(* integer that is not below the seconds from the clock to that datetime;   *)
(* for a whole number of seconds n >= 0 it returns n when the clock does    *)
(* not advance during the call.                                             *)
C23_GetExpirationSeconds ==
    call.op = "get_expiration_seconds" =>
        LET expires == get_expiration_datetime(call.expire_after, call.now)
        IN  /\ expires = None => call.returned = NEVER_EXPIRE
            /\ expires # None =>
                   LET tenths == (expires.v - call.later) * 10 + expires.f
                   IN  /\ call.returned * 10 >= tenths
                       /\ (call.returned - 1) * 10 < tenths
            /\ (IsWholeSeconds(call.expire_after) /\ call.later = call.now) =>
                   call.returned = WholeSeconds(call.expire_after)

C23_Witness ==
    /\ call.op = "get_expiration_seconds"
    /\ call.expire_after = FloatV(15)
    /\ call.later = call.now
    /\ call.returned = 2

(* C29: get_expiration_seconds returns NEVER_EXPIRE (-1) only for values    *)
(* without expiration: whenever get_expiration_datetime(expire_after) is a  *)
(* datetime, also one in the past, the returned seconds are not -1.         *)
C29_SentinelOnlyForNoExpiration ==
    (call.op = "get_expiration_seconds"
     /\ get_expiration_datetime(call.expire_after, call.now) # None) =>
        call.returned # NEVER_EXPIRE

(* C24: ttl is None exactly when expires is None or the response is        *)
(* expired (now >= expires); otherwise it is the whole number of seconds    *)
(* that remain until expires, which is never negative, also when the clock  *)
(* advances between the expiry check and the subtraction.                   *)
C24_TtlNeverNegative ==
    call.op = "ttl" =>
        /\ (call.returned = None) <=>
               (call.self.expires = None \/ NotBefore(call.now, call.self.expires))
        /\ call.returned # None =>
               LET tenths == (call.self.expires.v - call.later) * 10 + call.self.expires.f
               IN  /\ call.returned.v >= 0
                   /\ call.returned.v * 10 <= tenths
                   /\ tenths < (call.returned.v + 1) * 10

\* cache_control.py:66-74: the fields of a CacheActions
Fields ==
    {"cache_control", "cache_key", "expire_after", "only_if_cached", "request_directives",
     "revalidate", "skip_read", "skip_write", "validation_headers"}

\* the fields of the instance that the step leaves as they are
Unchanged(fields) == \A f \in fields : actions'[f] = actions[f]

(* C25: in a cycle, update_from_cached_response changes no field but        *)
(* revalidate and validation_headers, update_from_response changes none but *)
(* expire_after and skip_write, and cache_control, cache_key,               *)
(* only_if_cached, skip_read and request_directives stay as from_request    *)
(* set them, in every step up to the end of the cycle.                      *)
C25_Frame ==
    [][actions # None =>
          /\ call'.op = "update_from_cached_response" =>
                 Unchanged(Fields \ {"revalidate", "validation_headers"})
          /\ call'.op = "update_from_response" =>
                 Unchanged(Fields \ {"expire_after", "skip_write"})
          /\ Unchanged({"cache_control", "cache_key", "only_if_cached", "skip_read",
                        "request_directives"})]_vars

\* both updates have acted and have changed the fields they may change
C25_Witness ==
    /\ call.op = "update_from_response"
    /\ actions.expire_after # call.self.expire_after
    /\ actions.skip_write # call.self.skip_write
    /\ actions.revalidate
    /\ actions.validation_headers # EmptyDict
    /\ NonEmpty(actions.request_directives)
    /\ actions.only_if_cached
    /\ actions.skip_read

(* C28: in every state of a cycle (from_request, at most one               *)
(* update_from_cached_response, update_from_response), validation_headers  *)
(* is non-empty only if revalidate is set; and right after                 *)
(* update_from_cached_response on a cached response that counts as present *)
(* (a truthy one), revalidate is set iff validation_headers is non-empty.  *)
C28_ValidationHeadersOnlyWithRevalidate ==
    /\ actions # None =>
           (actions.validation_headers # EmptyDict => actions.revalidate)
    /\ (AfterCachedResponse /\ pc = "cached") =>
           (actions.revalidate <=> actions.validation_headers # EmptyDict)

\* the request asks for a revalidation that the cached response, which has no
\* validator, cannot get: update_from_cached_response has unset revalidate
C28_Witness ==
    /\ AfterCachedResponse
    /\ pc = "cached"
    /\ call.self.revalidate
    /\ ~actions.revalidate
    /\ actions.validation_headers = EmptyDict

\* the step is a call that gives the response a new expiration: from_response
\* (a new object) or reset_expiration
NewExpiration == call' # call /\ call'.op \in {"from_response", "reset_expiration"}

(* C27: with a clock that never goes back, a CachedResponse without        *)
(* expires is never expired; a response with expires that is expired stays *)
(* expired in every later state until reset_expiration is called (or       *)
(* another response takes its place); and reset_expiration(e) returns the  *)
(* is_expired that holds right after expires has been recomputed from e.   *)
C27_ExpiredStaysExpired ==
    [][/\ now' >= now
       /\ (cache # None /\ cache.expires = None) => ~is_expired(cache, now)
       /\ (cache # None /\ is_expired(cache, now) /\ ~NewExpiration) =>
              (cache'.expires = cache.expires /\ is_expired(cache', now'))
       /\ (call' # call /\ call'.op = "reset_expiration") =>
              /\ cache'.expires = get_expiration_datetime(call'.expire_after, call'.now)
              /\ call'.returned = is_expired(cache', now')]_vars

\* an expired response has been given a later expiration by reset_expiration
C27_Witness ==
    /\ call.op = "reset_expiration"
    /\ is_expired(call.self, call.now)
    /\ cache.expires # None
    /\ ~call.returned
    /\ ~is_expired(cache, now)

(* C26: two cycles that run at once, each with its own CacheActions        *)
(* instance, request and responses, do not interfere: whatever the order   *)
(* of their from_request, update_from_cached_response and                  *)
(* update_from_response steps, each instance ends with the values of all   *)
(* its fields, validation_headers and request_directives among them, that  *)
(* it has when its cycle runs alone.                                       *)
C26_NoInterference ==
    \A i \in Cycles :
        cycles[i].pc = "done" => Deref(cycles[i].self, heap) = cycles[i].alone

\* both cycles have ended, each with validation headers that the other has not
C26_Witness ==
    /\ \A i \in Cycles : cycles[i].pc = "done"
    /\ DOMAIN Deref(cycles[1].self, heap).validation_headers = {"If-None-Match"}
    /\ DOMAIN Deref(cycles[2].self, heap).validation_headers = {"If-Modified-Since"}
    /\ NonEmpty(cycles[1].alone.request_directives)
    /\ ~NonEmpty(cycles[2].alone.request_directives)

====
